---- MODULE Spec2Model ----
(***************************************************************************)
(* Invoice_Data_Extractor: the page elaboration / invoice grouping / text  *)
(* combination / field extraction / file writing chain of                  *)
(* app/services/gemini_invoice_extractor.py and app/utils/file_handler.py. *)
(*                                                                         *)
(* Text is a sequence of characters (one-character strings); the word      *)
(* "json" is one character of the alphabet.  A Python value is a record    *)
(* [kind, ints, chars, entries]; a dict keeps its insertion order in the   *)
(* sequence `entries` of [key, val] records.                               *)
(***************************************************************************)
EXTENDS Integers, Sequences, FiniteSets, TLC

VARIABLES
    entry,             \* the call the caller makes on the extractor
    pc,                \* position inside that call
    pages,             \* List[PageTextData] handed to the call
    idx,               \* number of loop iterations completed in the running stage
    elaborated_pages,  \* List[ElaboratedPageTextData] built by generate_elaborated_texts
    llm_calls,         \* history: every self.llm.invoke made, with its outcome
    stage_log,         \* history: the stage functions entered, in order
    mapped_pages,      \* value returned by map_invoice_pages
    combined_texts,    \* value returned by combine_invoice_text
    invoices_dict,     \* argument of extract_invoice_table_from_dict
    results,           \* list built by extract_invoice_table_from_dict
    files,             \* output directory: file name -> content lines
    raised,            \* functions out of which an exception propagated, in order
    text,              \* argument of clean_llm_json
    cleaned,           \* value returned by clean_llm_json
    formatted,         \* history: the pages as labelled in the grouping prompt
    write_invoice_data \* argument of YamlStyleTextWriter.write

vars == <<entry, pc, pages, idx, elaborated_pages, llm_calls, stage_log,
          mapped_pages, combined_texts, invoices_dict, results, files, raised,
          text, cleaned, formatted, write_invoice_data>>

-----------------------------------------------------------------------------
(* Bounds *)

MaxLen == 7        \* longest text handed to clean_llm_json on its own
MaxPages == 2      \* most pages in a document

-----------------------------------------------------------------------------
(* str primitives used by the code *)

Whitespace == {" ", "\n"}

\* the backquote character (a TLA+ string cannot hold one)
Backquote == "backquote"

Fence == <<Backquote, Backquote, Backquote>>
FenceJson == <<Backquote, Backquote, Backquote, "json">>

Drop(t, n) == IF n >= Len(t) THEN <<>> ELSE SubSeq(t, n + 1, Len(t))
Take(t, n) == IF n >= Len(t) THEN t ELSE SubSeq(t, 1, n)

\* str.startswith
StartsWith(t, p) == Len(t) >= Len(p) /\ SubSeq(t, 1, Len(p)) = p

\* str.endswith
EndsWith(t, p) == Len(t) >= Len(p) /\ SubSeq(t, Len(t) - Len(p) + 1, Len(t)) = p

\* str.replace(p, ""): every non-overlapping occurrence, left to right
RECURSIVE Remove(_, _)
Remove(t, p) ==
    IF t = <<>> THEN <<>>
    ELSE IF StartsWith(t, p) THEN Remove(Drop(t, Len(p)), p)
    ELSE <<Head(t)>> \o Remove(Tail(t), p)

RECURSIVE LStrip(_)
LStrip(t) == IF t # <<>> /\ Head(t) \in Whitespace THEN LStrip(Tail(t)) ELSE t

RECURSIVE RStrip(_)
RStrip(t) ==
    IF t # <<>> /\ t[Len(t)] \in Whitespace THEN RStrip(Take(t, Len(t) - 1)) ELSE t

\* str.strip
Strip(t) == RStrip(LStrip(t))

\* "\n".join(parts)
RECURSIVE Join(_)
Join(parts) ==
    IF parts = <<>> THEN <<>>
    ELSE IF Len(parts) = 1 THEN parts[1]
    ELSE parts[1] \o <<"\n">> \o Join(Tail(parts))

-----------------------------------------------------------------------------
(* Python values *)

PyVal(kind, ints, chars, entries) ==
    [kind |-> kind, ints |-> ints, chars |-> chars, entries |-> entries]

None == PyVal("none", <<>>, <<>>, <<>>)
PyInt(n) == PyVal("int", <<n>>, <<>>, <<>>)
PyList(ns) == PyVal("list", ns, <<>>, <<>>)
PyStr(cs) == PyVal("str", <<>>, cs, <<>>)
PyDict(es) == PyVal("dict", <<>>, <<>>, es)
Item(k, v) == [key |-> k, val |-> v]

Keys(d) == [n \in 1..Len(d.entries) |-> d.entries[n].key]
HasKey(d, k) == \E n \in 1..Len(d.entries) : d.entries[n].key = k
Get(d, k) == d.entries[CHOOSE n \in 1..Len(d.entries) : d.entries[n].key = k].val

\* d[k] = v: an existing key keeps its place, a new key goes last
SetItem(d, k, v) ==
    IF HasKey(d, k)
    THEN PyDict([n \in 1..Len(d.entries) |->
                    IF d.entries[n].key = k THEN Item(k, v) ELSE d.entries[n]])
    ELSE PyDict(Append(d.entries, Item(k, v)))

\* bool(x) of Python
Truthy(v) ==
    CASE v.kind = "none" -> FALSE
      [] v.kind = "int"  -> v.ints[1] # 0
      [] v.kind = "list" -> v.ints # <<>>
      [] v.kind = "str"  -> v.chars # <<>>
      [] v.kind = "dict" -> v.entries # <<>>
      [] OTHER -> TRUE

-----------------------------------------------------------------------------
(* JSON text: what the text-generation capability writes, and json.loads *)

Numbers == {1, 2, 5, 99}
NumberWord(n) == ToString(n)
NumberWords == {NumberWord(n) : n \in Numbers}
Quote == "\""

RECURSIVE DumpInts(_)
DumpInts(ns) ==
    IF ns = <<>> THEN <<>>
    ELSE IF Len(ns) = 1 THEN <<NumberWord(ns[1])>>
    ELSE <<NumberWord(ns[1]), ",">> \o DumpInts(Tail(ns))

DumpStr(cs) == <<Quote>> \o cs \o <<Quote>>

DumpLeaf(v) ==
    CASE v.kind = "int"  -> <<NumberWord(v.ints[1])>>
      [] v.kind = "list" -> <<"[">> \o DumpInts(v.ints) \o <<"]">>
      [] v.kind = "str"  -> DumpStr(v.chars)

RECURSIVE DumpEntries(_)
DumpEntries(es) ==
    IF es = <<>> THEN <<>>
    ELSE DumpStr(es[1].key) \o <<":">> \o DumpLeaf(es[1].val)
         \o (IF Len(es) = 1 THEN <<>> ELSE <<",">> \o DumpEntries(Tail(es)))

\* the JSON text of a value
Dumps(v) ==
    IF v.kind = "dict" THEN <<"{">> \o DumpEntries(v.entries) \o <<"}">>
    ELSE DumpLeaf(v)

\* a parse step: ok, the value read, the text left
Parsed(v, rest) == [ok |-> TRUE, val |-> v, rest |-> rest]
NoParse == [ok |-> FALSE, val |-> None, rest |-> <<>>]

ParseStr(t) ==
    IF t # <<>> /\ Head(t) = Quote /\ \E k \in 2..Len(t) : t[k] = Quote
    THEN LET k == CHOOSE k \in 2..Len(t) :
                      t[k] = Quote /\ \A j \in 2..(k - 1) : t[j] # Quote
         IN Parsed(PyStr(SubSeq(t, 2, k - 1)), Drop(t, k))
    ELSE NoParse

ParseNum(t) ==
    IF t # <<>> /\ Head(t) \in NumberWords
    THEN Parsed(PyInt(CHOOSE n \in Numbers : NumberWord(n) = Head(t)), Tail(t))
    ELSE NoParse

\* after "[" or after ",": number, then "," or "]"
RECURSIVE ParseIntsTail(_, _)
ParseIntsTail(t, acc) ==
    LET n == ParseNum(t) IN
    IF ~n.ok \/ n.rest = <<>> THEN NoParse
    ELSE IF Head(n.rest) = "]"
         THEN Parsed(PyList(Append(acc, n.val.ints[1])), Tail(n.rest))
    ELSE IF Head(n.rest) = ","
         THEN ParseIntsTail(Tail(n.rest), Append(acc, n.val.ints[1]))
    ELSE NoParse

ParseList(t) ==
    IF t = <<>> \/ Head(t) # "[" THEN NoParse
    ELSE IF Len(t) >= 2 /\ t[2] = "]" THEN Parsed(PyList(<<>>), Drop(t, 2))
    ELSE ParseIntsTail(Tail(t), <<>>)

ParseLeaf(t) ==
    IF t = <<>> THEN NoParse
    ELSE IF Head(t) = "[" THEN ParseList(t)
    ELSE IF Head(t) = Quote THEN ParseStr(t)
    ELSE ParseNum(t)

\* after "{" or after ",": key, ":", value, then "," or "}"; a repeated key
\* keeps its first place and takes the last value
RECURSIVE ParseEntriesTail(_, _)
ParseEntriesTail(t, acc) ==
    LET k == ParseStr(t) IN
    IF ~k.ok \/ k.rest = <<>> \/ Head(k.rest) # ":" THEN NoParse
    ELSE LET v == ParseLeaf(Tail(k.rest)) IN
         IF ~v.ok \/ v.rest = <<>> THEN NoParse
         ELSE LET d == SetItem(acc, k.val.chars, v.val) IN
              IF Head(v.rest) = "}" THEN Parsed(d, Tail(v.rest))
              ELSE IF Head(v.rest) = "," THEN ParseEntriesTail(Tail(v.rest), d)
              ELSE NoParse

ParseDict(t) ==
    IF t = <<>> \/ Head(t) # "{" THEN NoParse
    ELSE IF Len(t) >= 2 /\ t[2] = "}" THEN Parsed(PyDict(<<>>), Drop(t, 2))
    ELSE ParseEntriesTail(Tail(t), PyDict(<<>>))

\* json.loads: the value, or JSONDecodeError
JSONDecodeError == PyVal("JSONDecodeError", <<>>, <<>>, <<>>)

Loads(t) ==
    LET s == Strip(t)
        p == IF s # <<>> /\ Head(s) = "{" THEN ParseDict(s) ELSE ParseLeaf(s)
    IN IF p.ok /\ p.rest = <<>> THEN p.val ELSE JSONDecodeError

-----------------------------------------------------------------------------
(* GeminiInvoiceExtractor.clean_llm_json *)

CleanStep1(t) == IF StartsWith(t, FenceJson) THEN Strip(Remove(t, FenceJson)) ELSE t
CleanStep2(t) == IF StartsWith(t, Fence) THEN Strip(Remove(t, Fence)) ELSE t
CleanStep3(t) == IF EndsWith(t, Fence) THEN Strip(Take(t, Len(t) - 3)) ELSE t

clean_llm_json(t) == CleanStep3(CleanStep2(CleanStep1(t)))

-----------------------------------------------------------------------------
(* The text-generation capability: self.llm.invoke either raises or returns *)
(* a response whose .content is a text                                      *)

Raises == [ok |-> FALSE, content |-> <<>>]
Responds(c) == [ok |-> TRUE, content |-> c]
Call(stage, r) == [stage |-> stage, ok |-> r.ok, content |-> r.content]

CallsOf(stage) == SelectSeq(llm_calls, LAMBDA c : c.stage = stage)

\* a response wrapped the ways a model wraps JSON
Bare(t) == t
FencedJson(t) == FenceJson \o <<"\n">> \o t \o <<"\n">> \o Fence
Fenced(t) == Fence \o <<"\n">> \o t \o <<"\n">> \o Fence
Wrappings(t) == {Bare(t), FencedJson(t), Fenced(t)}

NotJson == {<<>>, <<"x">>, <<"{">>}

-----------------------------------------------------------------------------
(* Documents and responses the runs draw from *)

INV_A == <<"A">>
INV_B == <<"B">>
INV_Marked == <<"A">> \o FenceJson     \* an identifier holding the fence token

PageTexts == {<<>>, <<"p">>}
Filename == "f.pdf"

PageData(n, t) == [page_number |-> n, filename |-> Filename, text |-> t]
Elaborated(page, e) ==
    [page_number |-> page.page_number, filename |-> page.filename,
     text |-> page.text, elaborated_text |-> e]

\* documents as the OCR source builds them: pages numbered from 1 in order
Documents ==
    UNION {{[n \in 1..k |-> PageData(n, f[n])] : f \in [1..k -> PageTexts]}
           : k \in 0..MaxPages}

ElaborationOutcomes == {Raises, Responds(<<>>), Responds(<<" ">>), Responds(<<" ", "e">>)}

GroupDocs ==
    { PyDict(<<Item(INV_A, PyList(<<1, 2>>))>>),
      PyDict(<<Item(INV_A, PyList(<<1>>)), Item(INV_B, PyList(<<2>>))>>),
      PyDict(<<Item(INV_A, PyList(<<1, 99>>))>>),
      PyDict(<<Item(INV_Marked, PyList(<<1>>))>>),
      PyDict(<<Item(INV_A, PyInt(5))>>),
      PyDict(<<>>),
      PyList(<<1, 2>>),
      PyInt(5),
      PyStr(<<"s">>) }

GroupOutcomes ==
    {Raises} \cup {Responds(t) : t \in NotJson}
    \cup UNION {{Responds(t) : t \in Wrappings(Dumps(d))} : d \in GroupDocs}

-----------------------------------------------------------------------------
(* GeminiInvoiceExtractor.generate_elaborated_texts *)

\* mutants of ElaborateBody: the handler forgets the pages gathered so far;
\* an empty result counts as a failure
ElaborateBodyLosesPages(acc, page, r) ==
    IF r.ok THEN Append(acc, Elaborated(page, Strip(r.content))) ELSE <<>>
ElaborateBodyDropsEmpty(acc, page, r) ==
    IF r.ok /\ Strip(r.content) # <<>>
    THEN Append(acc, Elaborated(page, Strip(r.content))) ELSE acc

\* one iteration of the loop over pages: the call, the model object, the append;
\* an exception anywhere in the body is logged and the page left out
ElaborateBody(acc, page, r) ==
    IF r.ok THEN Append(acc, Elaborated(page, Strip(r.content))) ELSE acc

-----------------------------------------------------------------------------
(* GeminiInvoiceExtractor.map_invoice_pages, from the response on *)

\* the grouping prompt: f"Page {i+1}:\n{txt}" for i, txt in enumerate(pages),
\* each page under its position in the list, counted from 1
FormatPages(pgs) == [k \in 1..Len(pgs) |-> [label |-> (k - 1) + 1, page |-> pgs[k]]]

\* try: strip, clean, json.loads, return; except JSONDecodeError: return {}
ParseInvoiceMap(content) ==
    LET invoice_map == Loads(clean_llm_json(Strip(content))) IN
    IF invoice_map = JSONDecodeError THEN PyDict(<<>>) ELSE invoice_map

-----------------------------------------------------------------------------
(* GeminiInvoiceExtractor.combine_invoice_text *)

Returned(v) == [raised |-> FALSE, val |-> v]
Raised == [raised |-> TRUE, val |-> None]

\* page_text_lookup.get(n): the dict comprehension keeps the last page of a number
LookupText(pgs, n) ==
    IF \E i \in 1..Len(pgs) : pgs[i].page_number = n
    THEN LET i == CHOOSE i \in 1..Len(pgs) :
                      /\ pgs[i].page_number = n
                      /\ \A j \in (i + 1)..Len(pgs) : pgs[j].page_number # n
         IN PyStr(pgs[i].text)
    ELSE None

\* mutant of FoundTexts: the loop ends at the first page it does not find
RECURSIVE FoundTextsUntilMissing(_, _)
FoundTextsUntilMissing(nums, pgs) ==
    IF nums = <<>> THEN <<>>
    ELSE LET t == LookupText(pgs, Head(nums)) IN
         IF Truthy(t) THEN <<t.chars>> \o FoundTextsUntilMissing(Tail(nums), pgs)
         ELSE <<>>

\* the inner loop: `if text:` appends, anything falsy is warned about and skipped
RECURSIVE FoundTexts(_, _)
FoundTexts(nums, pgs) ==
    IF nums = <<>> THEN <<>>
    ELSE LET t == LookupText(pgs, Head(nums)) IN
         (IF Truthy(t) THEN <<t.chars>> ELSE <<>>) \o FoundTexts(Tail(nums), pgs)

\* the body of the loop over page_mapping.items() for one invoice
CombineEntry(e, pgs) ==
    CASE e.val.kind = "list" ->
            Returned(Item(e.key, PyStr(Strip(Join(FoundTexts(e.val.ints, pgs))))))
      [] e.val.kind = "str" ->       \* iterates characters: none is a page number
            Returned(Item(e.key, PyStr(<<>>)))
      [] OTHER -> Raised             \* TypeError: not iterable

\* the loop over page_mapping.items(): `return combined_texts` stands inside it,
\* after the first invoice; a loop that never runs falls off the function's end
CombineLoop(es, pgs) ==
    IF es = <<>> THEN Returned(None)
    ELSE LET first == CombineEntry(es[1], pgs) IN
         IF first.raised THEN Raised ELSE Returned(PyDict(<<first.val>>))

\* except Exception: logging.exception(...); raise
combine_invoice_text(page_mapping, pgs) ==
    IF page_mapping.kind # "dict" THEN Raised     \* no .items()
    ELSE CombineLoop(page_mapping.entries, pgs)

-----------------------------------------------------------------------------
(* GeminiInvoiceExtractor.extract_invoice_table_from_dict *)

Invoice_ID == <<"Invoice_ID">>

\* `if not invoices_dict or not isinstance(invoices_dict, dict)`
ExtractGuard(d) == ~Truthy(d) \/ d.kind # "dict"

\* mutant of ExtractBody: an Invoice_ID the model returned is kept
ExtractBodyKeepsModelId(acc, invoice_id, r) ==
    IF ~r.ok THEN acc
    ELSE LET invoice_data == Loads(clean_llm_json(r.content)) IN
         IF invoice_data.kind = "dict"
         THEN Append(acc, IF HasKey(invoice_data, Invoice_ID) THEN invoice_data
                          ELSE SetItem(invoice_data, Invoice_ID, PyStr(invoice_id)))
         ELSE acc

\* one iteration of the loop over invoices_dict.items()
ExtractBody(acc, invoice_id, r) ==
    IF ~r.ok THEN acc
    ELSE LET invoice_data == Loads(clean_llm_json(r.content)) IN
         IF invoice_data.kind = "dict"
         THEN Append(acc, SetItem(invoice_data, Invoice_ID, PyStr(invoice_id)))
         ELSE acc

ExtractDocs ==
    { PyDict(<<Item(<<"total">>, PyStr(<<"9">>))>>),
      PyDict(<<Item(Invoice_ID, PyStr(<<"Z">>)), Item(<<"total">>, PyStr(<<"9">>))>>),
      PyDict(<<>>),
      PyList(<<1>>) }

ExtractOutcomes ==
    {Raises, Responds(<<"x">>)}
    \cup UNION {{Responds(t) : t \in {Bare(Dumps(d)), FencedJson(Dumps(d))}}
                : d \in ExtractDocs}

-----------------------------------------------------------------------------
(* YamlStyleTextWriter.write *)

invoice_number == <<"invoice_number">>

\* the class has no __init__ and nothing assigns output_dir
HasOutputDir == FALSE

FileName(id) == id \o <<".txt">>

\* the argument of write: a list of entries, or one entry
ListOf(invoices) == [is_list |-> TRUE, items |-> invoices]
Single(invoice) == [is_list |-> FALSE, items |-> <<invoice>>]

\* `if not isinstance(invoice_data, list): invoice_data = [invoice_data]`
Normalize(arg) == IF arg.is_list THEN arg.items ELSE <<arg.items[1]>>

\* "  " * indent
RECURSIVE Prefix(_)
Prefix(indent) == IF indent = 0 THEN <<>> ELSE <<" ", " ">> \o Prefix(indent - 1)

\* f"{value}" of a scalar
Format(v) ==
    CASE v.kind = "str" -> v.chars
      [] v.kind = "int" -> <<NumberWord(v.ints[1])>>
      [] OTHER -> <<"None">>

\* _write_dict: the lines written for the items of a dict (a list holds
\* scalars here, each written as "- item" at the key's own indent)
RECURSIVE WriteDictLines(_, _)
WriteDictLines(es, indent) ==
    IF es = <<>> THEN <<>>
    ELSE LET key == es[1].key
             value == es[1].val
             prefix == Prefix(indent)
         IN (CASE value.kind = "dict" ->
                    <<prefix \o key \o <<":">>>> \o WriteDictLines(value.entries, indent + 1)
               [] value.kind = "list" ->
                    <<prefix \o key \o <<":">>>>
                    \o [k \in 1..Len(value.ints) |->
                           prefix \o <<"-", " ", NumberWord(value.ints[k])>>]
               [] OTHER ->
                    <<prefix \o key \o <<":", " ">> \o Format(value)>>)
            \o WriteDictLines(Tail(es), indent)

\* one iteration: ValueError on a missing number, AttributeError on
\* self.output_dir; `except Exception` logs either and continues
WriteEntry(fs, invoice) ==
    IF invoice.kind # "dict" THEN fs
    ELSE IF ~HasKey(invoice, invoice_number) THEN fs
    ELSE IF ~Truthy(Get(invoice, invoice_number)) THEN fs
    ELSE IF ~HasOutputDir THEN fs
    ELSE LET name == FileName(Format(Get(invoice, invoice_number)))
         IN {f \in fs : f.name # name}
            \cup {[name |-> name, content |-> WriteDictLines(invoice.entries, 0)]}

RECURSIVE WriteAll(_, _)
WriteAll(fs, invoices) ==
    IF invoices = <<>> THEN fs
    ELSE WriteAll(WriteEntry(fs, Head(invoices)), Tail(invoices))

\* YamlStyleTextWriter.write(invoice_data)
write(fs, arg) == WriteAll(fs, Normalize(arg))

-----------------------------------------------------------------------------
(* Calls.  `entry` names the call the caller makes:                        *)
(*   "ocr_to_yaml_text"  the orchestration method;                         *)
(*   "stages"            the stage methods one after the other, each on    *)
(*                       the value the stage before it returned;           *)
(*   otherwise           one method on arguments of the caller's choosing. *)

\* an exception leaving an inner stage: ocr_to_yaml_text prints it and re-raises
Propagate(fn) ==
    /\ raised' = raised \o <<fn>>
                 \o (IF entry = "ocr_to_yaml_text" THEN <<"ocr_to_yaml_text">> ELSE <<>>)
    /\ pc' = "raised"

\* generate_elaborated_texts: one page
ElaboratePage ==
    /\ pc = "elaborate"
    /\ idx < Len(pages)
    /\ \E r \in ElaborationOutcomes :
          /\ llm_calls' = Append(llm_calls, Call("elaborate", r))
          /\ elaborated_pages' = ElaborateBody(elaborated_pages, pages[idx + 1], r)
    /\ idx' = idx + 1
    /\ UNCHANGED <<formatted, write_invoice_data, entry, pc, pages, stage_log, mapped_pages, combined_texts,
                   invoices_dict, results, files, raised, text, cleaned>>

\* generate_elaborated_texts returns; the caller goes on to map_invoice_pages
ElaborateReturn ==
    /\ pc = "elaborate"
    /\ idx = Len(pages)
    /\ pc' = "group"
    /\ idx' = 0
    /\ stage_log' = Append(stage_log, "map_invoice_pages")
    /\ UNCHANGED <<formatted, write_invoice_data, entry, pages, elaborated_pages, llm_calls, mapped_pages,
                   combined_texts, invoices_dict, results, files, raised, text, cleaned>>

\* map_invoice_pages: the call stands before the try
MapInvoicePages ==
    /\ pc = "group"
    /\ \E r \in GroupOutcomes :
          /\ llm_calls' = Append(llm_calls, Call("group", r))
          /\ IF r.ok
             THEN /\ mapped_pages' = ParseInvoiceMap(r.content)
                  /\ pc' = IF entry = "ocr_to_yaml_text" THEN "save" ELSE "combine"
                  /\ stage_log' = IF entry = "ocr_to_yaml_text" THEN stage_log
                                  ELSE Append(stage_log, "combine_invoice_text")
                  /\ UNCHANGED raised
             ELSE /\ Propagate("map_invoice_pages")
                  /\ UNCHANGED <<mapped_pages, stage_log>>
    /\ formatted' = FormatPages(elaborated_pages)
    /\ UNCHANGED <<write_invoice_data, entry, pages, idx, elaborated_pages, combined_texts,
                   invoices_dict, results, files, text, cleaned>>

\* ocr_to_yaml_text step 3: self.save_invoices_to_yaml_txt is not an attribute
\* of the class (its definition is commented out): AttributeError, re-raised
SaveInvoicesToYamlTxt ==
    /\ pc = "save"
    /\ entry = "ocr_to_yaml_text"
    /\ raised' = Append(raised, "ocr_to_yaml_text")
    /\ pc' = "raised"
    /\ UNCHANGED <<formatted, write_invoice_data, entry, pages, idx, elaborated_pages, llm_calls, stage_log,
                   mapped_pages, combined_texts, invoices_dict, results, files,
                   text, cleaned>>

\* combine_invoice_text(mapped_pages, elaborated_pages)
CombineInvoiceText ==
    /\ pc = "combine"
    /\ LET o == combine_invoice_text(mapped_pages, elaborated_pages) IN
       IF o.raised
       THEN /\ Propagate("combine_invoice_text")
            /\ UNCHANGED <<combined_texts, invoices_dict, stage_log>>
       ELSE /\ combined_texts' = o.val
            /\ UNCHANGED raised
            /\ IF entry = "stages"
               THEN /\ invoices_dict' = o.val
                    /\ pc' = "extract"
                    /\ stage_log' = Append(stage_log, "extract_invoice_table_from_dict")
               ELSE /\ pc' = "done"
                    /\ UNCHANGED <<invoices_dict, stage_log>>
    /\ UNCHANGED <<formatted, write_invoice_data, entry, pages, idx, elaborated_pages, llm_calls, mapped_pages,
                   results, files, text, cleaned>>

AfterExtract ==
    IF entry = "stages"
    THEN /\ pc' = "write"
         /\ stage_log' = Append(stage_log, "write")
    ELSE /\ pc' = "done"
         /\ UNCHANGED stage_log

\* extract_invoice_table_from_dict: the guard returns []
ExtractNothing ==
    /\ pc = "extract"
    /\ ExtractGuard(invoices_dict)
    /\ results' = <<>>
    /\ AfterExtract
    /\ UNCHANGED <<formatted, write_invoice_data, entry, pages, idx, elaborated_pages, llm_calls, mapped_pages,
                   combined_texts, invoices_dict, files, raised, text, cleaned>>

\* extract_invoice_table_from_dict: one invoice
ExtractInvoice ==
    /\ pc = "extract"
    /\ ~ExtractGuard(invoices_dict)
    /\ idx < Len(invoices_dict.entries)
    /\ \E r \in ExtractOutcomes :
          /\ llm_calls' = Append(llm_calls, Call("extract", r))
          /\ results' = ExtractBody(results, invoices_dict.entries[idx + 1].key, r)
    /\ idx' = idx + 1
    /\ UNCHANGED <<formatted, write_invoice_data, entry, pc, pages, elaborated_pages, stage_log, mapped_pages,
                   combined_texts, invoices_dict, files, raised, text, cleaned>>

\* extract_invoice_table_from_dict: return results
ExtractReturn ==
    /\ pc = "extract"
    /\ ~ExtractGuard(invoices_dict)
    /\ idx = Len(invoices_dict.entries)
    /\ AfterExtract
    /\ UNCHANGED <<formatted, write_invoice_data, entry, pages, idx, elaborated_pages, llm_calls, mapped_pages,
                   combined_texts, invoices_dict, results, files, raised, text, cleaned>>

\* YamlStyleTextWriter().write(...): of results when the stages run in turn
WriterWrite ==
    /\ pc = "write"
    /\ files' = write(files, IF entry = "stages" THEN ListOf(results) ELSE write_invoice_data)
    /\ pc' = "done"
    /\ UNCHANGED <<formatted, write_invoice_data, entry, pages, idx, elaborated_pages, llm_calls, stage_log,
                   mapped_pages, combined_texts, invoices_dict, results, raised,
                   text, cleaned>>

\* clean_llm_json(text)
CleanLlmJson ==
    /\ pc = "clean"
    /\ cleaned' = clean_llm_json(text)
    /\ pc' = "done"
    /\ UNCHANGED <<formatted, write_invoice_data, entry, pages, idx, elaborated_pages, llm_calls, stage_log,
                   mapped_pages, combined_texts, invoices_dict, results, files,
                   raised, text>>

-----------------------------------------------------------------------------
(* The pipeline: ocr_to_yaml_text(pages), or the stages called in turn *)

Init ==
    /\ entry \in {"ocr_to_yaml_text", "stages"}
    /\ pc = "elaborate"
    /\ pages \in Documents
    /\ idx = 0
    /\ elaborated_pages = <<>>
    /\ llm_calls = <<>>
    /\ stage_log = <<"generate_elaborated_texts">>
    /\ mapped_pages = None
    /\ combined_texts = None
    /\ invoices_dict = None
    /\ results = <<>>
    /\ files = {}
    /\ raised = <<>>
    /\ text = <<>>
    /\ cleaned = <<>>
    /\ formatted = <<>>
    /\ write_invoice_data = ListOf(<<>>)

Next ==
    \/ ElaboratePage
    \/ ElaborateReturn
    \/ MapInvoicePages
    \/ SaveInvoicesToYamlTxt
    \/ CombineInvoiceText
    \/ ExtractNothing
    \/ ExtractInvoice
    \/ ExtractReturn
    \/ WriterWrite

Spec == Init /\ [][Next]_vars

-----------------------------------------------------------------------------
(* clean_llm_json on every text of at most MaxLen characters *)

CleanAlphabet == {Backquote, "json", " ", "x"}
CleanTexts == UNION {[1..k -> CleanAlphabet] : k \in 0..MaxLen}

InitClean ==
    /\ entry = "clean_llm_json"
    /\ pc = "clean"
    /\ stage_log = <<"clean_llm_json">>
    /\ pages = <<>> /\ idx = 0 /\ elaborated_pages = <<>> /\ llm_calls = <<>>
    /\ mapped_pages = None /\ combined_texts = None /\ invoices_dict = None
    /\ results = <<>> /\ files = {} /\ raised = <<>>
    /\ text \in CleanTexts
    /\ cleaned = <<>>
    /\ formatted = <<>> /\ write_invoice_data = ListOf(<<>>)

SpecClean == InitClean /\ [][CleanLlmJson]_vars

-----------------------------------------------------------------------------
(* combine_invoice_text on a mapping and pages of the caller's choosing *)

CombineTexts == {<<>>, <<"a">>, <<" ", "b">>}
CombineLists ==
    {<<>>, <<1>>, <<2>>, <<1, 2>>, <<2, 1>>, <<1, 99>>, <<99>>, <<1, 2, 1>>}
CombineValues == {PyList(ns) : ns \in CombineLists} \cup {PyInt(5), PyStr(<<"s">>)}
CombineMappings ==
    {PyDict(<<>>), PyList(<<1, 2>>)}
    \cup {PyDict(<<Item(k, v)>>) : k \in {INV_A, INV_B}, v \in CombineValues}
    \cup {PyDict(<<Item(INV_A, v), Item(INV_B, w)>>) : v, w \in CombineValues}
    \cup {PyDict(<<Item(INV_B, v), Item(INV_A, w)>>) : v, w \in CombineValues}

CombinePages ==
    UNION {{[n \in 1..k |-> Elaborated(PageData(n, f[n]), <<"e">>)]
            : f \in [1..k -> CombineTexts]} : k \in 0..MaxPages}

InitCombine ==
    /\ entry = "combine_invoice_text"
    /\ pc = "combine"
    /\ stage_log = <<"combine_invoice_text">>
    /\ pages = <<>> /\ idx = 0 /\ llm_calls = <<>>
    /\ elaborated_pages \in CombinePages
    /\ mapped_pages \in CombineMappings
    /\ combined_texts = None /\ invoices_dict = None
    /\ results = <<>> /\ files = {} /\ raised = <<>>
    /\ text = <<>> /\ cleaned = <<>>
    /\ formatted = <<>> /\ write_invoice_data = ListOf(<<>>)

SpecCombine == InitCombine /\ [][CombineInvoiceText]_vars

-----------------------------------------------------------------------------
(* extract_invoice_table_from_dict on a dictionary of the caller's choosing *)

ExtractIds == {INV_A, INV_B, <<"C">>}
ExtractInputs ==
    {None, PyDict(<<>>), PyList(<<1>>)}
    \cup {PyDict(<<Item(k, PyStr(<<"a">>))>>) : k \in ExtractIds}
    \cup {PyDict(<<Item(kl[1], PyStr(<<"a">>)), Item(kl[2], PyStr(<<"b">>))>>)
          : kl \in {p \in ExtractIds \X ExtractIds : p[1] # p[2]}}

InitExtract ==
    /\ entry = "extract_invoice_table_from_dict"
    /\ pc = "extract"
    /\ stage_log = <<"extract_invoice_table_from_dict">>
    /\ pages = <<>> /\ idx = 0 /\ elaborated_pages = <<>> /\ llm_calls = <<>>
    /\ mapped_pages = None /\ combined_texts = None
    /\ invoices_dict \in ExtractInputs
    /\ results = <<>> /\ files = {} /\ raised = <<>>
    /\ text = <<>> /\ cleaned = <<>>
    /\ formatted = <<>> /\ write_invoice_data = ListOf(<<>>)

NextExtract == ExtractNothing \/ ExtractInvoice \/ ExtractReturn

SpecExtract == InitExtract /\ [][NextExtract]_vars

-----------------------------------------------------------------------------
(* YamlStyleTextWriter().write on entries of the caller's choosing *)

MaxBatch == 3      \* most entries in a list handed to write

Numbered(id, rest) == PyDict(<<Item(invoice_number, PyStr(id))>> \o rest)
WriteEntries ==
    { Numbered(<<"X">>, <<Item(<<"total">>, PyStr(<<"9">>))>>),
      Numbered(<<"X">>, <<Item(<<"content">>,
                               PyDict(<<Item(<<"a">>, PyStr(<<"1">>)),
                                        Item(<<"b">>, PyList(<<1, 2>>))>>))>>),
      Numbered(<<"Y">>, <<>>),
      Numbered(<<>>, <<Item(<<"total">>, PyStr(<<"9">>))>>),
      PyDict(<<Item(Invoice_ID, PyStr(INV_A)), Item(<<"total">>, PyStr(<<"9">>))>>),
      PyDict(<<>>) }

WriteArguments ==
    {Single(e) : e \in WriteEntries}
    \cup UNION {{ListOf(b) : b \in [1..k -> WriteEntries]} : k \in 0..MaxBatch}

InitWrite ==
    /\ entry = "write"
    /\ pc = "write"
    /\ stage_log = <<"write">>
    /\ pages = <<>> /\ idx = 0 /\ elaborated_pages = <<>> /\ llm_calls = <<>>
    /\ mapped_pages = None /\ combined_texts = None /\ invoices_dict = None
    /\ results = <<>> /\ files = {} /\ raised = <<>>
    /\ text = <<>> /\ cleaned = <<>> /\ formatted = <<>>
    /\ write_invoice_data \in WriteArguments

SpecWrite == InitWrite /\ [][WriterWrite]_vars

-----------------------------------------------------------------------------
(* Properties *)

Range(f) == {f[n] : n \in DOMAIN f}
KeySet(d) == Range(Keys(d))
Finished == pc \in {"done", "raised"}
\* p occurs in t
Contains(t, p) == \E k \in 0..(Len(t) - Len(p)) : StartsWith(Drop(t, k), p)

\* C1: combine_invoice_text visits every key of the group mapping: for a
\* page_mapping of two or more invoice identifiers the returned mapping has
\* exactly the key set of page_mapping, not only its first key.
C1_CombineVisitsEveryKey ==
    (/\ entry = "combine_invoice_text"
     /\ pc = "done"
     /\ mapped_pages.kind = "dict"
     /\ Len(mapped_pages.entries) >= 2)
    => /\ combined_texts.kind = "dict"
       /\ KeySet(combined_texts) = KeySet(mapped_pages)

AllCallsSucceed == \A n \in 1..Len(llm_calls) : llm_calls[n].ok
DocumentedStages ==
    <<"generate_elaborated_texts", "map_invoice_pages", "combine_invoice_text",
      "extract_invoice_table_from_dict", "write">>

\* C2: a run of ocr_to_yaml_text in which every text-generation call succeeds
\* and the grouping response decodes to a non-empty map passes the stages in
\* the order elaborate, group, combine, extract, write, ends without raising,
\* and leaves one file <identifier>.txt per invoice identifier.
C2_PipelineWritesOneFilePerInvoice ==
    (/\ entry = "ocr_to_yaml_text"
     /\ Finished
     /\ AllCallsSucceed
     /\ mapped_pages.kind = "dict"
     /\ mapped_pages.entries # <<>>)
    => /\ raised = <<>>
       /\ stage_log = DocumentedStages
       /\ {f.name : f \in files} = {FileName(k) : k \in KeySet(mapped_pages)}

\* C3: inner stages are fail-soft: no exception leaves
\* generate_elaborated_texts, map_invoice_pages, combine_invoice_text,
\* extract_invoice_table_from_dict or write; only ocr_to_yaml_text re-raises.
C3_OnlyOrchestrationRaises ==
    \A n \in 1..Len(raised) : raised[n] = "ocr_to_yaml_text"

GroupCalled == CallsOf("group") # <<>>
GroupCall == CallsOf("group")[1]

\* C4: map_invoice_pages returns an empty map, and does not raise, on a
\* response whose fence-cleaned content is not decodable JSON; on a response
\* that is a JSON object, bare or wrapped in a json fence, it returns exactly
\* the decoded object.
C4_MapReturnsDecodedObject ==
    (GroupCalled /\ GroupCall.ok)
    => /\ \A n \in 1..Len(raised) : raised[n] # "map_invoice_pages"
       /\ Loads(clean_llm_json(Strip(GroupCall.content))) = JSONDecodeError
             => mapped_pages = PyDict(<<>>)
       /\ \A d \in GroupDocs :
             (/\ d.kind = "dict"
              /\ GroupCall.content \in {Bare(Dumps(d)), FencedJson(Dumps(d))})
             => mapped_pages = d

\* C5: whatever text the capability returns, map_invoice_pages returns a
\* mapping whose values are lists of integers; valid JSON of another shape is
\* turned into an empty result.
C5_MapValuesAreIntegerLists ==
    (GroupCalled /\ GroupCall.ok)
    => /\ mapped_pages.kind = "dict"
       /\ \A n \in 1..Len(mapped_pages.entries) :
             mapped_pages.entries[n].val.kind = "list"

\* the text of the page numbered n (page numbers are unique in a document)
TextOfPage(n) == (CHOOSE pg \in Range(elaborated_pages) : pg.page_number = n).text

\* the texts of the listed pages that exist (and, with nonEmpty, hold text),
\* in the order listed
ListedTexts(nums, nonEmpty) ==
    LET there == SelectSeq(nums, LAMBDA n :
                     \E pg \in Range(elaborated_pages) :
                         pg.page_number = n /\ (nonEmpty => pg.text # <<>>))
    IN [k \in 1..Len(there) |-> TextOfPage(there[k])]

CombineReturnedFor(e) ==
    /\ entry = "combine_invoice_text"
    /\ pc = "done"
    /\ combined_texts.kind = "dict"
    /\ HasKey(combined_texts, e.key)
    /\ e.val.kind = "list"

\* C6 (as claimed): the value combine_invoice_text returns for an invoice is
\* the texts of its listed pages that exist, in the order listed, joined by a
\* newline and trimmed; a listed page that is absent is skipped.
C6_JoinsExistingPages ==
    \A e \in Range(mapped_pages.entries) :
        CombineReturnedFor(e)
        => Get(combined_texts, e.key) = PyStr(Strip(Join(ListedTexts(e.val.ints, FALSE))))

\* C6 (amended): the value combine_invoice_text returns for an invoice is the
\* texts of its listed pages that exist and are not empty, in the order
\* listed, joined by a newline and trimmed; absent and empty pages are skipped.
C6_JoinsNonEmptyExistingPages ==
    \A e \in Range(mapped_pages.entries) :
        CombineReturnedFor(e)
        => Get(combined_texts, e.key) = PyStr(Strip(Join(ListedTexts(e.val.ints, TRUE))))

\* C6 witness: {"A": [1, 99]} with page 1 alone present returns page 1's text
C6_Witness ==
    /\ entry = "combine_invoice_text"
    /\ pc = "done"
    /\ mapped_pages = PyDict(<<Item(INV_A, PyList(<<1, 99>>))>>)
    /\ Len(elaborated_pages) = 1
    /\ elaborated_pages[1].text = <<"a">>
    /\ combined_texts = PyDict(<<Item(INV_A, PyStr(<<"a">>))>>)

ExtractCalls == CallsOf("extract")
ExtractReturned ==
    /\ entry = "extract_invoice_table_from_dict"
    /\ pc = "done"
    /\ ~ExtractGuard(invoices_dict)

\* the invoices (by position) whose call succeeded with a JSON object
DecodedObject(n) == Loads(clean_llm_json(ExtractCalls[n].content))
Extracted == {n \in 1..Len(ExtractCalls) : ExtractCalls[n].ok /\ DecodedObject(n).kind = "dict"}
NthExtracted(k) == CHOOSE n \in Extracted : Cardinality({m \in Extracted : m < n}) = k - 1

\* C7: extract_invoice_table_from_dict returns, in input order, exactly one
\* record for each invoice whose response decodes to a JSON object, with
\* Invoice_ID equal to the key it was supplied under (overriding the model's
\* own Invoice_ID) and the decoded fields otherwise; an invoice whose call
\* fails or whose response does not parse is absent and stops nothing.
C7_ExtractOneRecordPerParsedInvoice ==
    ExtractReturned
    => /\ Len(ExtractCalls) = Len(invoices_dict.entries)
       /\ Len(results) = Cardinality(Extracted)
       /\ \A k \in 1..Len(results) :
             LET n == NthExtracted(k) IN
             /\ HasKey(results[k], Invoice_ID)
             /\ Get(results[k], Invoice_ID) = PyStr(invoices_dict.entries[n].key)
             /\ KeySet(results[k]) = KeySet(DecodedObject(n)) \cup {Invoice_ID}
             /\ \A f \in KeySet(DecodedObject(n)) \ {Invoice_ID} :
                   Get(results[k], f) = Get(DecodedObject(n), f)

\* C7 witness: the first invoice's call fails, the second answers with an
\* object carrying its own Invoice_ID; the one record is the second invoice's
C7_Witness ==
    /\ ExtractReturned
    /\ Len(ExtractCalls) = 2
    /\ ~ExtractCalls[1].ok
    /\ ExtractCalls[2].ok
    /\ DecodedObject(2).kind = "dict"
    /\ HasKey(DecodedObject(2), Invoice_ID)
    /\ Len(results) = 1
    /\ Get(results[1], Invoice_ID) = PyStr(invoices_dict.entries[2].key)

ElaborateCalls == CallsOf("elaborate")
Kept == {n \in 1..Len(ElaborateCalls) : ElaborateCalls[n].ok}
NthKept(k) == CHOOSE n \in Kept : Cardinality({m \in Kept : m < n}) = k - 1

\* C8: generate_elaborated_texts returns an order-preserving subsequence of
\* its input, no longer than it: every output page carries the page_number,
\* filename and text of one input page, no input page appears twice, a call
\* that raises drops that page alone, and every later page is still processed.
C8_ElaboratedIsSubsequence ==
    /\ pc # "elaborate" /\ entry \in {"ocr_to_yaml_text", "stages"}
          => Len(ElaborateCalls) = Len(pages)
    /\ Len(elaborated_pages) = Cardinality(Kept)
    /\ Len(elaborated_pages) <= Len(pages)
    /\ \A k \in 1..Len(elaborated_pages) :
          LET page == pages[NthKept(k)] IN
          /\ elaborated_pages[k].page_number = page.page_number
          /\ elaborated_pages[k].filename = page.filename
          /\ elaborated_pages[k].text = page.text

\* C8 witness: of two pages the first call raised and the second page was kept
C8_Witness ==
    /\ pc = "group"
    /\ Len(pages) = 2
    /\ ~ElaborateCalls[1].ok
    /\ ElaborateCalls[2].ok
    /\ Len(elaborated_pages) = 1
    /\ elaborated_pages[1].page_number = 2

\* C9 (as claimed): a page whose call returns an empty or whitespace-only
\* result is omitted, so every returned page has a non-empty elaborated_text.
C9_EmptyResultOmitsPage ==
    \A k \in 1..Len(elaborated_pages) : elaborated_pages[k].elaborated_text # <<>>

\* C9 (amended): a page whose call returns an empty or whitespace-only result
\* is kept, with an empty elaborated_text; a page is omitted exactly when its
\* call raises.
C9_EmptyResultKeepsPage ==
    \A n \in 1..Len(ElaborateCalls) :
        LET there == {k \in 1..Len(elaborated_pages) :
                         elaborated_pages[k].page_number = pages[n].page_number}
        IN IF ElaborateCalls[n].ok
           THEN /\ Cardinality(there) = 1
                /\ \A k \in there :
                      /\ elaborated_pages[k].elaborated_text = Strip(ElaborateCalls[n].content)
                      /\ Strip(ElaborateCalls[n].content) = <<>>
                            => elaborated_pages[k].elaborated_text = <<>>
           ELSE there = {}

\* C9 witness: a whitespace-only result, and the page returned with an empty
\* elaborated_text
C9_Witness ==
    /\ pc = "group"
    /\ Len(pages) >= 1
    /\ ElaborateCalls[1].ok
    /\ ElaborateCalls[1].content = <<" ">>
    /\ elaborated_pages # <<>>
    /\ elaborated_pages[1].page_number = 1
    /\ elaborated_pages[1].elaborated_text = <<>>

\* C10: clean_llm_json is idempotent, clean(clean(text)) = clean(text) for
\* every text; text free of fence markers is returned unchanged; the fenced
\* {"a":1} cleans to {"a":1}.
C10_CleanIdempotent ==
    (entry = "clean_llm_json" /\ pc = "done")
    => /\ clean_llm_json(cleaned) = cleaned
       /\ ~Contains(text, Fence) => cleaned = text
       /\ LET content == Dumps(PyDict(<<Item(<<"a">>, PyInt(1))>>))
          IN clean_llm_json(FencedJson(content)) = content

WriteBatch == Normalize(write_invoice_data)
\* the entries that carry an invoice number
NumberedEntries ==
    {n \in 1..Len(WriteBatch) :
        /\ HasKey(WriteBatch[n], invoice_number)
        /\ Truthy(Get(WriteBatch[n], invoice_number))}
NameOf(n) == FileName(Format(Get(WriteBatch[n], invoice_number)))

\* C11: write on a batch skips an entry lacking invoice_number without
\* aborting the batch, and for every other entry leaves exactly one file
\* <invoice_number>.txt holding that entry's serialization, a later entry
\* replacing an earlier file of the same name; a single entry that is no list
\* is handled as a batch of one.
C11_WriteOneFilePerNumberedEntry ==
    (entry = "write" /\ pc = "done")
    => /\ raised = <<>>
       /\ {f.name : f \in files} = {NameOf(n) : n \in NumberedEntries}
       /\ Cardinality(files) = Cardinality({NameOf(n) : n \in NumberedEntries})
       /\ \A n \in NumberedEntries :
             (\A m \in NumberedEntries : m > n => NameOf(m) # NameOf(n))
             => [name |-> NameOf(n),
                 content |-> WriteDictLines(WriteBatch[n].entries, 0)] \in files

\* C12: page references agree across stages: every elaborated page is
\* labelled in the grouping prompt with its own page_number, so the page
\* combine_invoice_text finds under a number is the page the grouper saw under
\* that number, and is never missing when the grouper was shown it.
C12_PageLabelsArePageNumbers ==
    \A k \in 1..Len(formatted) :
        \E pg \in Range(elaborated_pages) :
            /\ pg.page_number = formatted[k].label
            /\ pg = formatted[k].page

\* C13: an empty map from grouping is a no-op downstream:
\* combine_invoice_text returns an empty mapping (not an absent value),
\* extract_invoice_table_from_dict on it returns an empty sequence, the writer
\* writes no file, and none of the three raises.
C13_EmptyMapIsNoOp ==
    (/\ entry = "stages"
     /\ GroupCalled /\ GroupCall.ok
     /\ mapped_pages = PyDict(<<>>))
    => /\ raised = <<>>
       /\ pc \in {"extract", "write", "done"} => combined_texts = PyDict(<<>>)
       /\ pc \in {"write", "done"} => results = <<>>
       /\ pc = "done" => files = {}

====
